---- MODULE Spec2Model ----
(***************************************************************************)
(* Model of the POEditor reconciliation-and-execution pipeline:            *)
(*   POEditorClient.makeRequest / withRateLimit / batchOperation           *)
(*   SyncManager.executeSync                                               *)
(* The client modelled is the retrying one (response interceptor that      *)
(* builds POEditorApiError, withRateLimit with maxRetries).                *)
(***************************************************************************)
EXTENDS Integers, Sequences, FiniteSets, TLC

VARIABLES
    pc,            \* position of the executeSync invocation
    apiToken,      \* POEditorClient.apiToken is set (TRUE) or null (FALSE)
    opts,          \* SyncExecutionOptions of the running invocation
    result,        \* SyncResult being filled
    phase,         \* which block of executeSync's try is being executed
    i,             \* batchOperation: loop index
    results,       \* batchOperation: results collected so far
    attempt,       \* withRateLimit: retry counter
    pending,       \* withRateLimit: operation result awaiting the spacing wait
    waitMs,        \* withRateLimit: computed backoff wait (a JS number)
    waits,         \* history: the waits before jitter of the retries of the
                   \* current withRateLimit call, while no answer carried a hint
    invocations,   \* history: operation() calls made by the current withRateLimit
    called,        \* history: endpoints that received a network request
    sent,          \* history: project identifiers the requests carried
    lastErr,       \* history: last error caught by withRateLimit
    thrown,        \* history: message of the error withRateLimit raised
    sinceLastEnd,  \* history: timer time elapsed since the last attempt ended,
                   \* read when the next attempt starts and cleared by that start
    attemptEnded,  \* history: some attempt of this invocation has ended
    reported,      \* history: per endpoint, sum of the counts the server reported
    batchesDone,   \* history: batches whose remote operation completed
    mt,            \* options.machineTranslate and plan.missingTranslations, bound
                   \* where executeSync first reads machineTranslate
    chunks,        \* history: batches sliced by the current batchOperation
    answers,       \* history: per answered batch, its index and the value returned
    opCalls,       \* history: operation() calls made by the current batchOperation
    retries,       \* history: backoff waits taken by the current batchOperation
    busy,          \* history: operations of this invocation that are in flight or
                   \* in their spacing / backoff wait
    other,         \* withRateLimit call of a second, concurrent tool call
    keys,          \* calculateSyncPlan's arguments: the DetectedKey objects,
    remote,        \* the POEditorTermResponse objects (sorted in place by a call),
    translations,  \* the translations with content per included language
    diffOptions,   \* and { deleteExtraneous, includeLangs }
    projectId,     \* createSyncPlan: the project whose terms were listed
    syncPlan,      \* the SyncPlan the last call returned
    planCalls,     \* calls of calculateSyncPlan made on these objects
    firstPlan      \* history: the SyncPlan the first call returned

vars == <<pc, apiToken, opts, result, phase, i, results, attempt, pending, waitMs,
          waits, invocations, called, sent, lastErr, thrown, sinceLastEnd,
          attemptEnded, reported, batchesDone, mt, chunks, answers, opCalls,
          retries, busy, other, keys, remote, translations, diffOptions,
          projectId, syncPlan, planCalls, firstPlan>>

batchHist == <<chunks, answers, opCalls, retries>>

diffVars == <<keys, remote, translations, diffOptions, projectId, syncPlan,
              planCalls, firstPlan>>

----------------------------------------------------------------------------
(* Bounds of the model *)

\* longest addTerms / updateTerms / deleteTerms list of a plan
MaxLen == 2

\* largest batchSize handed to executeSync
MaxBatch == 2

\* longest list handed to batchOperation when it is called on its own
MaxItems == 3

----------------------------------------------------------------------------
(* JavaScript values: numbers, NaN and undefined *)

Num(n) == [k |-> "number", v |-> n]

NaN == [k |-> "NaN", v |-> 0]

Undefined == [k |-> "undefined", v |-> 0]

IsNum(x) == x.k = "number"

\* Math.max(a, b) on two numbers: NaN if either is NaN
MathMax(a, b) ==
    IF a.k = "NaN" \/ b.k = "NaN" THEN NaN
    ELSE IF a.v >= b.v THEN a ELSE b

MathMin(a, b) ==
    IF a.k = "NaN" \/ b.k = "NaN" THEN NaN
    ELSE IF a.v <= b.v THEN a ELSE b

JsAdd(a, b) ==
    IF a.k = "NaN" \/ b.k = "NaN" THEN NaN ELSE Num(a.v + b.v)

JsTimes(a, n) ==
    IF a.k = "NaN" THEN NaN ELSE Num(a.v * n)

\* a ?? b
Coalesce(a, b) == IF a.k = "undefined" THEN b ELSE a

\* largest delay a Node timer accepts (2^31 - 1); anything else becomes 1 ms
TIMEOUT_MAX == (2 ^ 30 - 1) + 2 ^ 30

\* setTimeout(r, ms): the delay the timer really waits
TimerDelay(ms) ==
    IF ms.k = "number" /\ ms.v >= 1 /\ ms.v <= TIMEOUT_MAX THEN ms.v ELSE 1

----------------------------------------------------------------------------
(* parseInt(text, 10), text a sequence of characters *)

Digits == {"0", "1", "2", "3", "4", "5", "6", "7", "8", "9"}

DigitVal(c) ==
    CASE c = "0" -> 0 [] c = "1" -> 1 [] c = "2" -> 2 [] c = "3" -> 3
      [] c = "4" -> 4 [] c = "5" -> 5 [] c = "6" -> 6 [] c = "7" -> 7
      [] c = "8" -> 8 [] c = "9" -> 9

RECURSIVE StripLeft(_)
StripLeft(s) ==
    IF s # <<>> /\ Head(s) = " " THEN StripLeft(Tail(s)) ELSE s

RECURSIVE DigitPrefix(_, _)
DigitPrefix(s, acc) ==
    IF s # <<>> /\ Head(s) \in Digits
    THEN DigitPrefix(Tail(s), acc * 10 + DigitVal(Head(s)))
    ELSE acc

ParseInt(s) ==
    LET t == StripLeft(s)
        signed == t # <<>> /\ Head(t) \in {"-", "+"}
        neg == t # <<>> /\ Head(t) = "-"
        u == IF signed THEN Tail(t) ELSE t
    IN  IF u = <<>> \/ Head(u) \notin Digits THEN NaN
        ELSE Num((IF neg THEN -1 ELSE 1) * DigitPrefix(u, 0))

----------------------------------------------------------------------------
(* The remote service: what one POST can answer *)

NoHeader == [present |-> FALSE, text |-> <<>>]

Header(text) == [present |-> TRUE, text |-> text]

\* retry-after header values a server (or proxy) may send
RetryAfterHeaders ==
    { NoHeader, Header(<<>>), Header(<<"0">>), Header(<<"3", "0">>),
      Header(<<"W", "e", "d">>) }

\* http = 0: no response at all (network failure, timeout)
Response(http, marker, count, header) ==
    [http |-> http, marker |-> marker, count |-> count, retryAfter |-> header]

Responses(n) ==
    { Response(200, TRUE, c, NoHeader) : c \in 0..n }
      \cup { Response(200, FALSE, 0, NoHeader) }
      \cup { Response(429, FALSE, 0, h) : h \in RetryAfterHeaders }
      \cup { Response(503, FALSE, 0, h) : h \in {NoHeader, Header(<<"3", "0">>)} }
      \cup { Response(s, FALSE, 0, NoHeader) : s \in {0, 401, 500} }

----------------------------------------------------------------------------
(* POEditorClient: errors *)

ApiError(message, status, retryAfterMs) ==
    [name |-> "POEditorApiError", message |-> message, status |-> status,
     retryAfterMs |-> retryAfterMs]

PlainError(message) ==
    [name |-> "Error", message |-> message, status |-> Undefined,
     retryAfterMs |-> Undefined]

AxiosError(status) ==
    [name |-> "AxiosError", message |-> "axios", status |-> status,
     retryAfterMs |-> Undefined]

NoErr == [name |-> "none", message |-> "", status |-> Undefined,
          retryAfterMs |-> Undefined]

\* error.response?.status
ResponseStatus(resp) == IF resp.http = 0 THEN Undefined ELSE Num(resp.http)

\* retryAfterHeader ? parseInt(retryAfterHeader, 10) * 1000 : undefined
RetryAfterMs(header) ==
    IF header.present /\ header.text # <<>>
    THEN JsTimes(ParseInt(header.text), 1000)
    ELSE Undefined

\* the response interceptor's error branch: what it throws for a failed POST
Interceptor(resp) ==
    IF resp.http = 429
    THEN ApiError("Rate limit exceeded. Retrying with backoff.", Num(429),
                  RetryAfterMs(resp.retryAfter))
    ELSE IF resp.http = 401
    THEN ApiError("Invalid API token. Check POEditor API token.", Num(401), Undefined)
    ELSE AxiosError(ResponseStatus(resp))

Returned(value) == [ok |-> TRUE, value |-> value, err |-> NoErr]

Threw(err) == [ok |-> FALSE, value |-> 0, err |-> err]

\* makeRequest once the token check has passed and the POST has answered
makeRequest(resp) ==
    IF resp.http = 200
    THEN IF resp.marker
         THEN Returned(resp.count)
         ELSE Threw(ApiError("POEditor API error: rejected", Undefined, Undefined))
    ELSE LET error == Interceptor(resp)
         IN  IF error.name = "POEditorApiError" THEN Threw(error)
             ELSE Threw(ApiError("POEditor API request failed: axios",
                                 error.status, Undefined))

\* a missing token reported as a throttling answer
TokenThrottled ==
    ApiError("POEditor API token is required", Num(429), Undefined)

\* makeRequest with no token: thrown before anything is sent
TokenRequired == PlainError("POEditor API token is required")

----------------------------------------------------------------------------
(* POEditorClient.withRateLimit *)

maxRetries == 5

\* random jitter values drawn (Math.floor(Math.random() * 5000) is 0..4999)
Jitters == {0, 4999}

Pow2(n) == 2 ^ n

\* mutant: every 5xx answer is retried as well
ShouldRetryServerErrors(status, att) ==
    /\ status \in {Num(429), Num(503), Num(500)}
    /\ att < maxRetries

\* (status === 429 || status === 503) && attempt < maxRetries
ShouldRetry(status, att) ==
    /\ status \in {Num(429), Num(503)}
    /\ att < maxRetries

\* a wait that takes the largest of the floor, the hint and the uncapped
\* exponential term
BackoffWaitMaxOfThree(minDelay, retryAfterMs, att, jitter) ==
    JsAdd(MathMax(MathMax(Num(minDelay), Coalesce(retryAfterMs, Num(0))),
                  Num(minDelay * Pow2(att))),
          Num(jitter))

\* Math.max(minDelay, retryAfterMs ?? Math.min(60000, delay * 2^attempt)) + jitter
BackoffWaitMs(minDelay, retryAfterMs, att, jitter) ==
    JsAdd(MathMax(Num(minDelay),
                  Coalesce(retryAfterMs,
                           MathMin(Num(60000), Num(minDelay * Pow2(att))))),
          Num(jitter))

\* the message of the Error withRateLimit throws
SurfacedMessage(err) ==
    IF err.name = "POEditorApiError"
    THEN [prefix |-> "POEditor API error",
          status |-> IF IsNum(err.status) /\ err.status.v # 0
                     THEN err.status ELSE Undefined,
          text |-> err.message]
    ELSE [prefix |-> "", status |-> Undefined, text |-> err.message]

NoMessage == [prefix |-> "none", status |-> Undefined, text |-> ""]

----------------------------------------------------------------------------
(* SyncManager.executeSync: inputs *)

Ops == {"add", "update", "delete"}

Prefix(s, n) == SubSeq(s, 1, n)

TermIds == <<"t1", "t2", "t3", "t4">>

Lists == { Prefix(TermIds, n) : n \in 0..MaxLen }

Plans ==
    [addTerms : Lists, updateTerms : Lists, deleteTerms : Lists]

\* rateLimit values (seconds) handleSync passes on
RateLimits == {1, 20}

Options ==
    [plan : Plans, batchSize : 1..MaxBatch, dryRun : BOOLEAN,
     rateLimit : RateLimits]

NoOptions ==
    [plan |-> [addTerms |-> <<>>, updateTerms |-> <<>>, deleteTerms |-> <<>>],
     batchSize |-> 1, dryRun |-> TRUE, rateLimit |-> 1]

\* the plan list a phase works on
Items(plan, p) ==
    CASE p = "add" -> plan.addTerms
      [] p = "update" -> plan.updateTerms
      [] p = "delete" -> plan.deleteTerms
      [] OTHER -> <<>>

\* mutant: the delete block placed before the update block
NextPhaseDeleteFirst(p) ==
    CASE p = "add" -> "delete"
      [] p = "delete" -> "update"
      [] p = "update" -> "mt"
      [] OTHER -> "mt"

\* order of the blocks in executeSync's try
NextPhase(p) ==
    CASE p = "add" -> "update"
      [] p = "update" -> "delete"
      [] p = "delete" -> "mt"
      [] OTHER -> "mt"

\* an index argument of slice: a negative one counts from the end, and the
\* result is kept within 0..length
RelativeIndex(idx, length) ==
    IF idx < 0 THEN (IF length + idx < 0 THEN 0 ELSE length + idx)
    ELSE IF idx > length THEN length ELSE idx

\* a slice that takes the element at index `to` as well
SliceInclusive(items, from, to) ==
    SubSeq(items, RelativeIndex(from, Len(items)) + 1,
           RelativeIndex(to + 1, Len(items)))

\* items.slice(from, to)
Slice(items, from, to) ==
    SubSeq(items, RelativeIndex(from, Len(items)) + 1,
           RelativeIndex(to, Len(items)))

RECURSIVE SumCounts(_)
\* results.reduce((sum, r) => sum + r.count, 0)
SumCounts(rs) ==
    IF rs = <<>> THEN 0 ELSE Head(rs) + SumCounts(Tail(rs))

\* machineTranslate: boolean | string[]
MtBool(b) == [type |-> "boolean", truthy |-> b, langs |-> <<>>]

\* an array is an object and is truthy even when empty
MtList(langs) == [type |-> "object", truthy |-> TRUE, langs |-> langs]

MachineTranslates == {MtBool(FALSE), MtBool(TRUE), MtList(<<"it">>), MtList(<<>>)}

\* plan.missingTranslations as its entries in key insertion order
Bucket(lang, terms) == [lang |-> lang, terms |-> terms]

MissingTranslations ==
    { <<>>,
      <<Bucket("de", <<>>), Bucket("fr", <<>>)>>,
      <<Bucket("de", <<"t1">>), Bucket("fr", <<>>)>>,
      <<Bucket("de", <<"t1">>), Bucket("fr", <<"t1", "t2">>)>> }

MtInputs == [machineTranslate : MachineTranslates, missingTranslations : MissingTranslations]

NoMt == [machineTranslate |-> MtBool(FALSE), missingTranslations |-> <<>>]

RECURSIVE StatsMissing(_)
\* plan.stats.missing: Object.values(missingTranslations).reduce(sum + arr.length)
StatsMissing(buckets) ==
    IF buckets = <<>> THEN 0
    ELSE Len(Head(buckets).terms) + StatsMissing(Tail(buckets))

RECURSIVE NonEmptyLangs(_)
\* Object.keys(missing).filter(lang => missing[lang].length > 0)
NonEmptyLangs(buckets) ==
    IF buckets = <<>> THEN <<>>
    ELSE IF Len(Head(buckets).terms) > 0
    THEN <<Head(buckets).lang>> \o NonEmptyLangs(Tail(buckets))
    ELSE NonEmptyLangs(Tail(buckets))

\* the machine translation block of a live run
MtTriggered(res, m) ==
    IF m.machineTranslate.truthy /\ StatsMissing(m.missingTranslations) > 0
    THEN [res EXCEPT !.mtTriggered =
              IF m.machineTranslate.type = "object" THEN m.machineTranslate.langs
              ELSE NonEmptyLangs(m.missingTranslations)]
    ELSE res

EmptyResult ==
    [created |-> 0, updated |-> 0, deleted |-> 0, mtTriggered |-> <<>>,
     errors |-> <<>>, rateLimitWaits |-> 0]

\* mutant: the dry run reports the counters of an empty result
DryRunResultZero(plan, machineTranslate) ==
    [EmptyResult EXCEPT !.mtTriggered = IF machineTranslate.type = "object"
                                        THEN machineTranslate.langs ELSE <<>>]

\* the SyncResult of a dry run
DryRunResult(plan, machineTranslate) ==
    [created |-> Len(plan.addTerms), updated |-> Len(plan.updateTerms),
     deleted |-> Len(plan.deleteTerms),
     mtTriggered |-> IF machineTranslate.type = "object"
                     THEN machineTranslate.langs ELSE <<>>,
     errors |-> <<>>, rateLimitWaits |-> 0]

\* mutant: the counters echo the number of items submitted
PhaseResultEcho(res, p, rs) ==
    LET n == Len(Items(opts.plan, p))
        counted ==
            CASE p = "add" -> [res EXCEPT !.created = n]
              [] p = "update" -> [res EXCEPT !.updated = n]
              [] p = "delete" -> [res EXCEPT !.deleted = n]
    IN  [counted EXCEPT !.rateLimitWaits = @ + Len(rs)]

\* result after a phase's batchOperation returned rs
PhaseResult(res, p, rs) ==
    LET counted ==
            CASE p = "add" -> [res EXCEPT !.created = SumCounts(rs)]
              [] p = "update" -> [res EXCEPT !.updated = SumCounts(rs)]
              [] p = "delete" -> [res EXCEPT !.deleted = SumCounts(rs)]
    IN  [counted EXCEPT !.rateLimitWaits = @ + Len(rs)]

ZeroCounts == [p \in Ops |-> 0]

----------------------------------------------------------------------------
(* SyncManager.calculateSyncPlan: values *)

\* a string is a sequence of atoms ("" is <<>>); string | undefined and
\* string[] | undefined carry a flag
Undef == [def |-> FALSE, v |-> <<>>]

Some(v) == [def |-> TRUE, v |-> v]

\* truthiness of a string | undefined
Truthy(x) == x.def /\ x.v # <<>>

\* the elements of a list
Elements(list) == {list[k] : k \in 1..Len(list)}

RECURSIVE Join(_, _)
\* list.join(sep)
Join(list, sep) ==
    IF list = <<>> THEN <<>>
    ELSE IF Len(list) = 1 THEN list[1]
    ELSE list[1] \o sep \o Join(Tail(list), sep)

\* list.filter(Boolean) on strings and null (<<>>)
FilterBoolean(list) == SelectSeq(list, LAMBDA x : x # <<>>)

\* list.slice(0, n)
Take(list, n) == SubSeq(list, 1, IF Len(list) < n THEN Len(list) ELSE n)

\* [...new Set(list)]: first occurrences, in order
Unique(list) ==
    LET first == {k \in 1..Len(list) : \A j \in 1..(k - 1) : list[j] # list[k]}
        nth(n) == CHOOSE k \in first : Cardinality({j \in first : j < k}) = n - 1
    IN  [n \in 1..Cardinality(first) |-> list[nth(n)]]

\* the positions of the separator atoms in text
Separators(text, sep) == {k \in 1..Len(text) : text[k] = sep}

\* path.split(sep): the parts between the separator atoms
Split(text, sep) ==
    LET cuts == Separators(text, sep)
        from(n) == IF n = 1 THEN 1
                   ELSE 1 + CHOOSE k \in cuts : Cardinality({j \in cuts : j < k}) = n - 2
        to(n) == IF n = Cardinality(cuts) + 1 THEN Len(text)
                 ELSE (CHOOSE k \in cuts : Cardinality({j \in cuts : j < k}) = n - 1) - 1
    IN  [n \in 1..(Cardinality(cuts) + 1) |-> SubSeq(text, from(n), to(n))]

\* part.toLowerCase() on the atoms the model uses
ToLowerCase(part) ==
    IF part = <<"Pages">> THEN <<"pages">> ELSE part

\* the strings of the model in the order of Array.prototype.sort()
\* (UTF-16 code units)
SortOrder ==
    << <<"Pages">>, <<"components">>, <<"dynamic">>, <<"legacy">>, <<"pages">>,
       <<"usage:", "$t">>, <<"vue3">> >>

Rank(text) == CHOOSE k \in 1..Len(SortOrder) : SortOrder[k] = text

\* list.sort() with the default comparator: the element at position n is the
\* one with n - 1 elements before it in the (stable) order
Sort(list) ==
    LET before(a, b) == \/ Rank(list[a]) < Rank(list[b])
                        \/ Rank(list[a]) = Rank(list[b]) /\ a < b
    IN  [n \in 1..Len(list) |->
            list[CHOOSE k \in 1..Len(list) :
                     Cardinality({j \in 1..Len(list) : before(j, k)}) = n - 1]]

----------------------------------------------------------------------------
(* SyncManager: derived fields of a local key *)

\* key.files.map(f => f.<field>)
FileContexts(key) == [k \in 1..Len(key.files) |-> key.files[k].context]

FilePaths(key) == [k \in 1..Len(key.files) |-> key.files[k].path]

\* list.length > 0 ? list.join(sep) : undefined
JoinOrUndefined(list, sep) ==
    IF Len(list) > 0 THEN Some(Join(list, sep)) ELSE Undef

extractContext(key) ==
    JoinOrUndefined(Take(FilterBoolean(FileContexts(key)), 2), <<"\n---\n">>)

extractReference(key) ==
    Some(Join(Take(Unique(FilePaths(key)), 3), <<", ">>))

FeatureDirs ==
    { <<"components">>, <<"pages">>, <<"views">>, <<"layouts">>, <<"features">> }

\* relevantParts.length > 0 ? relevantParts[0] : null
FirstOrNull(relevantParts) ==
    IF Len(relevantParts) > 0 THEN relevantParts[1] ELSE <<>>

\* the first part of a path that names a feature directory, or null (<<>>)
PathTag(path) ==
    FirstOrNull(SelectSeq(Split(path, "/"),
                          LAMBDA part : ToLowerCase(part) \in FeatureDirs))

PathTags(key) ==
    Take(FilterBoolean([k \in 1..Len(key.files) |-> PathTag(key.files[k].path)]), 2)

\* tags.length > 0 ? [...new Set(tags)] : undefined
UniqueOrUndefined(tags) ==
    IF Len(tags) > 0 THEN Some(Unique(tags)) ELSE Undef

extractTags(key) ==
    UniqueOrUndefined(
        <<key.framework>>
            \o (IF key.dynamic THEN << <<"dynamic">> >> ELSE <<>>)
            \o (IF key.usage # <<>> THEN << <<"usage:">> \o key.usage >> ELSE <<>>)
            \o PathTags(key))

generateComment(key) ==
    JoinOrUndefined(
        (IF key.phrase # <<>> /\ key.phrase # <<key.key>>
         THEN << <<"Phrase: \"">> \o key.phrase \o <<"\"">> >> ELSE <<>>)
        \o (IF Len(key.files) > 1
            THEN << <<"Used in ", ToString(Len(key.files)), " files">> >> ELSE <<>>)
        \o (IF Len(key.examples) > 0
            THEN << <<"Examples: ">> \o Join(Take(key.examples, 2), <<", ">>) >>
            ELSE <<>>),
        <<"; ">>)

\* a comparison of the two tag arrays as they come, without sorting them
TagsDifferUnsorted(newTags, remoteTags) ==
    ~remoteTags.def \/ newTags.v # remoteTags.v

\* JSON.stringify(newTags.sort()) !== JSON.stringify(remoteKey.tags?.sort())
TagsDiffer(newTags, remoteTags) ==
    ~remoteTags.def \/ Sort(newTags.v) # Sort(remoteTags.v)

NoUpdates == [context |-> Undef, reference |-> Undef, tags |-> Undef, comment |-> Undef]

\* an update of every field the local key derives a value for, changed or not
ChangedAlways(newValue, remoteValue) ==
    IF Truthy(newValue) THEN newValue ELSE Undef

\* if (newValue && newValue !== remoteValue) updates.<field> = newValue
Changed(newValue, remoteValue) ==
    IF Truthy(newValue) /\ newValue # remoteValue THEN newValue ELSE Undef

\* if (newTags && <tags differ>) updates.tags = newTags, sorted in place
ChangedTags(newTags, remoteTags) ==
    IF newTags.def /\ TagsDiffer(newTags, remoteTags)
    THEN Some(Sort(newTags.v)) ELSE Undef

calculateTermUpdates(localKey, remoteKey) ==
    [context |-> Changed(extractContext(localKey), remoteKey.context),
     reference |-> Changed(extractReference(localKey), remoteKey.reference),
     tags |-> ChangedTags(extractTags(localKey), remoteKey.tags),
     comment |-> Changed(generateComment(localKey), remoteKey.comment)]

\* the keys an updates object has
UpdateKeys(updates) == {f \in DOMAIN updates : updates[f].def}

\* remoteKey after calculateTermUpdates: tags?.sort() sorts the array in place
SortedInPlace(localKey, remoteKey) ==
    IF extractTags(localKey).def /\ remoteKey.tags.def
    THEN [remoteKey EXCEPT !.tags = Some(Sort(remoteKey.tags.v))]
    ELSE remoteKey

----------------------------------------------------------------------------
(* SyncManager.calculateSyncPlan *)

\* the identifiers of a list of local keys / remote terms, in list order
LocalIds(localKeys) == [k \in 1..Len(localKeys) |-> localKeys[k].key]

RemoteIds(remoteTerms) == [k \in 1..Len(remoteTerms) |-> remoteTerms[k].term]

\* the index of the last element of ids equal to id
LastIndex(ids, id) ==
    CHOOSE k \in 1..Len(ids) : ids[k] = id /\ \A j \in (k + 1)..Len(ids) : ids[j] # id

\* iterating the list itself, repeated identifiers included
ListEntries(list, ids) == list

\* the values of new Map(list.map(x => [id, x])) in iteration order: one entry
\* per identifier, at the position of its first occurrence, holding the value
\* of its last occurrence
MapEntries(list, ids) ==
    [k \in 1..Len(Unique(ids)) |-> list[LastIndex(ids, Unique(ids)[k])]]

\* remoteKeyMap.get(key) / localKeyMap.has(key)
Has(ids, key) == \E k \in 1..Len(ids) : ids[k] = key

Get(list, ids, key) == list[LastIndex(ids, key)]

\* own properties of Object.prototype, found by a property read on any object
ObjectPrototypeKeys == {"constructor", "toString", "valueOf", "hasOwnProperty"}

\* remoteTranslations[lang]?.[key] is truthy
Translated(remoteTranslations, lang, key) ==
    \/ <<lang, key>> \in remoteTranslations.content
    \/ lang \in remoteTranslations.langs /\ key \in ObjectPrototypeKeys

\* buckets[lang] = []
ResetBucket(buckets, lang) ==
    IF \E k \in 1..Len(buckets) : buckets[k].lang = lang
    THEN [k \in 1..Len(buckets) |->
              IF buckets[k].lang = lang THEN Bucket(lang, <<>>) ELSE buckets[k]]
    ELSE Append(buckets, Bucket(lang, <<>>))

RECURSIVE InitBuckets(_, _)
\* for (lang of includeLangs) buckets[lang] = []
InitBuckets(buckets, langs) ==
    IF langs = <<>> THEN buckets
    ELSE InitBuckets(ResetBucket(buckets, Head(langs)), Tail(langs))

\* a push that puts the new element in front
Unshift(list, x) == <<x>> \o list

\* list.push(x)
Push(list, x) == Append(list, x)

\* buckets[lang].push(key)
PushKey(buckets, lang, key) ==
    [k \in 1..Len(buckets) |->
        IF buckets[k].lang = lang
        THEN Bucket(lang, Push(buckets[k].terms, key)) ELSE buckets[k]]

RECURSIVE MarkLangs(_, _, _, _)
\* for (lang of includeLangs) if (<lang is marked>) buckets[lang].push(key)
MarkLangs(buckets, langs, key, marked) ==
    IF langs = <<>> THEN buckets
    ELSE MarkLangs(IF Head(langs) \in marked THEN PushKey(buckets, Head(langs), key)
                   ELSE buckets,
                   Tail(langs), key, marked)

\* the term record pushed to addTerms
AddTerm(localKey) ==
    [term |-> localKey.key, context |-> extractContext(localKey),
     reference |-> extractReference(localKey), tags |-> extractTags(localKey),
     comment |-> generateComment(localKey)]

\* if (Object.keys(updates).length > 0) updateTerms.push({ term: key, updates })
PushUpdates(updateTerms, key, updates) ==
    IF Cardinality(UpdateKeys(updates)) > 0
    THEN Push(updateTerms, [term |-> key, updates |-> updates])
    ELSE updateTerms

\* the body of the loop over localKeyMap
LocalStep(localKey, remoteTerms, remoteTranslations, langs, acc) ==
    IF ~Has(RemoteIds(remoteTerms), localKey.key)
    THEN [acc EXCEPT
            !.addTerms = Push(@, AddTerm(localKey)),
            !.missingTranslations = MarkLangs(@, langs, localKey.key, Elements(langs))]
    ELSE [acc EXCEPT
            !.updateTerms =
                PushUpdates(@, localKey.key,
                            calculateTermUpdates(localKey,
                                Get(remoteTerms, RemoteIds(remoteTerms), localKey.key))),
            !.missingTranslations =
                MarkLangs(@, langs, localKey.key,
                          {lang \in Elements(langs) :
                              ~Translated(remoteTranslations, lang, localKey.key)})]

RECURSIVE LocalLoop(_, _, _, _, _)
\* for (const [key, localKey] of localKeyMap) { ... }
LocalLoop(entries, remoteTerms, remoteTranslations, langs, acc) ==
    IF entries = <<>> THEN acc
    ELSE LocalLoop(Tail(entries), remoteTerms, remoteTranslations, langs,
                   LocalStep(Head(entries), remoteTerms, remoteTranslations, langs, acc))

\* a test that finds every remote key extraneous
IsExtraneousAlways(localIds, key) == TRUE

\* !localKeyMap.has(key)
IsExtraneous(localIds, key) == ~Has(localIds, key)

\* the body of the loop over remoteKeyMap
DeleteStep(key, localIds, remoteTranslations, langs, acc) ==
    IF IsExtraneous(localIds, key)
    THEN [acc EXCEPT
            !.deleteTerms = Push(@, key),
            !.obsoleteTranslations =
                MarkLangs(@, langs, key,
                          {lang \in Elements(langs) :
                              Translated(remoteTranslations, lang, key)})]
    ELSE acc

RECURSIVE DeleteLoop(_, _, _, _, _)
\* for (const [key] of remoteKeyMap) { if (!localKeyMap.has(key)) ... }
DeleteLoop(entries, localIds, remoteTranslations, langs, acc) ==
    IF entries = <<>> THEN acc
    ELSE DeleteLoop(Tail(entries), localIds, remoteTranslations, langs,
                    DeleteStep(Head(entries).term, localIds, remoteTranslations,
                               langs, acc))

\* a delete pass that runs whatever the options say
DeleteAlways(options) == TRUE

\* if (options.deleteExtraneous)
DeleteRequested(options) == options.deleteExtraneous

\* stats whose missing counts the language buckets
StatsCountingBuckets(addTerms, updateTerms, deleteTerms, missingTranslations) ==
    [adds |-> Len(addTerms), updates |-> Len(updateTerms),
     deletes |-> Len(deleteTerms), missing |-> Len(missingTranslations)]

\* stats: { adds, updates, deletes, missing }
Stats(addTerms, updateTerms, deleteTerms, missingTranslations) ==
    [adds |-> Len(addTerms), updates |-> Len(updateTerms),
     deletes |-> Len(deleteTerms), missing |-> StatsMissing(missingTranslations)]

\* the five empty structures the loops fill
EmptyLists(langs) ==
    [addTerms |-> <<>>, updateTerms |-> <<>>, deleteTerms |-> <<>>,
     missingTranslations |-> InitBuckets(<<>>, langs),
     obsoleteTranslations |-> InitBuckets(<<>>, langs)]

\* the returned object
PlanOf(lists) ==
    [addTerms |-> lists.addTerms,
     updateTerms |-> lists.updateTerms,
     deleteTerms |-> lists.deleteTerms,
     missingTranslations |-> lists.missingTranslations,
     obsoleteTranslations |-> lists.obsoleteTranslations,
     renameHints |-> <<>>,
     stats |-> Stats(lists.addTerms, lists.updateTerms, lists.deleteTerms,
                     lists.missingTranslations)]

\* the delete pass, when requested
DeletePass(lists, localKeys, remoteTerms, remoteTranslations, options) ==
    IF DeleteRequested(options)
    THEN DeleteLoop(MapEntries(remoteTerms, RemoteIds(remoteTerms)),
                    LocalIds(localKeys), remoteTranslations, options.includeLangs,
                    lists)
    ELSE lists

calculateSyncPlan(localKeys, remoteTerms, remoteTranslations, options) ==
    PlanOf(DeletePass(LocalLoop(MapEntries(localKeys, LocalIds(localKeys)),
                                remoteTerms, remoteTranslations,
                                options.includeLangs,
                                EmptyLists(options.includeLangs)),
                      localKeys, remoteTerms, remoteTranslations, options))

\* the remote term objects after the call: the object held by remoteKeyMap for
\* a key that is also local has gone through calculateTermUpdates
RemoteAfter(localKeys, remoteTerms) ==
    [k \in 1..Len(remoteTerms) |->
        IF /\ Has(LocalIds(localKeys), remoteTerms[k].term)
           /\ LastIndex(RemoteIds(remoteTerms), remoteTerms[k].term) = k
        THEN SortedInPlace(Get(localKeys, LocalIds(localKeys), remoteTerms[k].term),
                           remoteTerms[k])
        ELSE remoteTerms[k]]

----------------------------------------------------------------------------
(* calculateSyncPlan: inputs *)

\* longest local key list and longest remote term list
MaxKeys == 2

\* calls of calculateSyncPlan on the same objects
MaxCalls == 2

KeyUsage(path, context) == [path |-> path, context |-> context]

\* a key used once, in a component
KeyInComponent(id) ==
    [key |-> id, phrase |-> <<id>>,
     files |-> <<KeyUsage(<<"src", "/", "components", "/", "A.vue">>, <<"ctx">>)>>,
     framework |-> <<"vue3">>, usage |-> <<"$t">>, dynamic |-> FALSE,
     examples |-> <<>>]

\* a dynamic key used twice in one page, without surrounding text
KeyInPage(id) ==
    [key |-> id, phrase |-> <<"Hello">>,
     files |-> <<KeyUsage(<<"Pages", "/", "x.vue">>, <<>>),
                 KeyUsage(<<"Pages", "/", "x.vue">>, <<>>)>>,
     framework |-> <<"vue3">>, usage |-> <<>>, dynamic |-> TRUE,
     examples |-> << <<"Hi">> >>]

DetectedKeys ==
    { KeyInComponent("t1"), KeyInComponent("t2"), KeyInPage("t2") }

\* the remote term KeyInComponent(id) was created from, its tags in the order
\* the key derives them
TermOfComponent(id) ==
    [term |-> id, context |-> Some(<<"ctx">>),
     reference |-> Some(<<"src", "/", "components", "/", "A.vue">>),
     tags |-> Some(<< <<"vue3">>, <<"usage:", "$t">>, <<"components">> >>),
     comment |-> Some(<<>>)]

\* a remote term without tags
TermUntagged(id) ==
    [term |-> id, context |-> Some(<<"old">>), reference |-> Some(<<>>),
     tags |-> Undef, comment |-> Some(<<"stale">>)]

TermResponses ==
    { TermOfComponent("t2"), TermUntagged("t2"), TermUntagged("t3") }

SeqsUpTo(S, n) == UNION { [1..m -> S] : m \in 0..n }

IncludeLangs == { <<>>, <<"de">>, <<"de", "fr">>, <<"de", "de">> }

\* the translations createSyncPlan collected: one map per included language,
\* holding the terms whose definition has content
Translations(langs, content) ==
    [langs |-> {langs[k] : k \in 1..Len(langs)},
     content |-> {p \in content : \E k \in 1..Len(langs) : langs[k] = p[1]}]

Contents ==
    { {}, {<<"de", "t2">>}, {<<"de", "t2">>, <<"de", "t3">>, <<"fr", "t3">>} }

PlanOptions == [deleteExtraneous : BOOLEAN, includeLangs : IncludeLangs]

\* the plan of two empty lists
NoPlan ==
    calculateSyncPlan(<<>>, <<>>, Translations(<<>>, {}),
                      [deleteExtraneous |-> FALSE, includeLangs |-> <<>>])

----------------------------------------------------------------------------
(* State machine *)

\* no call of calculateSyncPlan yet
\* projectId values a tool call may name; NoProject when no diff was made
ProjectIds == {"101", "202"}

NoProject == ""

NoDiff ==
    /\ keys = <<>>
    /\ remote = <<>>
    /\ translations = Translations(<<>>, {})
    /\ diffOptions = [deleteExtraneous |-> FALSE, includeLangs |-> <<>>]
    /\ projectId = NoProject
    /\ syncPlan = NoPlan
    /\ planCalls = 0
    /\ firstPlan = NoPlan

\* no withRateLimit call under way, or one in which a hint was received
NoWaits == [hinted |-> FALSE, base |-> <<>>]

\* no second tool call yet
OtherIdle == [pc |-> "idle", attempt |-> 0]

Init ==
    /\ pc = "idle"
    /\ apiToken \in BOOLEAN
    /\ opts = NoOptions
    /\ result = EmptyResult
    /\ phase = "add"
    /\ i = 0
    /\ results = <<>>
    /\ attempt = 0
    /\ waits = NoWaits
    /\ pending = 0
    /\ waitMs = Num(0)
    /\ invocations = 0
    /\ called = {}
    /\ sent = {}
    /\ lastErr = NoErr
    /\ thrown = NoMessage
    /\ sinceLastEnd = 0
    /\ attemptEnded = FALSE
    /\ reported = ZeroCounts
    /\ batchesDone = 0
    /\ mt = NoMt
    /\ chunks = <<>>
    /\ answers = <<>>
    /\ opCalls = 0
    /\ retries = 0
    /\ busy = 0
    /\ other = OtherIdle
    /\ NoDiff

\* options.machineTranslate with the missingTranslations of the plan executed:
\* those of the plan calculateSyncPlan returned when there is one
MtChoices ==
    IF planCalls > 0
    THEN { [machineTranslate |-> m, missingTranslations |-> syncPlan.missingTranslations] :
           m \in MachineTranslates }
    ELSE MtInputs

\* executeSync up to its first await: the dry-run return or the empty result
ExecuteSyncWith(options) ==
    /\ pc = "idle"
    /\ \E o \in options :
         /\ opts' = o
         /\ IF o.dryRun
            THEN /\ \E m \in MtChoices :
                      /\ mt' = m
                      /\ result' = DryRunResult(o.plan, m.machineTranslate)
                 /\ pc' = "returned"
            ELSE /\ result' = EmptyResult
                 /\ pc' = "phase"
                 /\ mt' = mt
    /\ phase' = "add"
    /\ UNCHANGED <<diffVars, apiToken,
                   i, results, attempt, waits, pending, waitMs, invocations,
                   called, sent, lastErr, thrown, sinceLastEnd, attemptEnded, reported,
                   batchesDone, batchHist, busy, other>>

ExecuteSync == ExecuteSyncWith(Options)

\* if (plan.<list>.length > 0) { ... batchOperation(...) }
BeginPhase ==
    /\ pc = "phase"
    /\ phase \in Ops
    /\ IF Len(Items(opts.plan, phase)) > 0
       THEN /\ pc' = "loop"
            /\ i' = 0
            /\ results' = <<>>
            /\ phase' = phase
       ELSE /\ phase' = NextPhase(phase)
            /\ UNCHANGED <<pc, i, results>>
    /\ UNCHANGED <<diffVars, apiToken,
                   opts, result, attempt, waits, pending, waitMs, invocations,
                   called, sent, lastErr, thrown, sinceLastEnd, attemptEnded, reported,
                   batchesDone, mt, batchHist, busy, other>>

\* the machine translation block that ends the try; the result is returned
MachineTranslation ==
    /\ pc = "phase"
    /\ phase = "mt"
    /\ \E m \in MtChoices :
         /\ mt' = m
         /\ result' = MtTriggered(result, m)
    /\ pc' = "returned"
    /\ UNCHANGED <<diffVars, apiToken,
                   opts, phase, i, results, attempt, waits, pending, waitMs,
                   invocations, called, sent, lastErr, thrown, sinceLastEnd,
                   attemptEnded, reported, batchesDone, batchHist, busy, other>>

\* the loop body of batchOperation up to withRateLimit's first operation():
\* const batch = items.slice(i, i + batchSize); withRateLimit(...)
SubmitBatch ==
    /\ chunks' = Append(chunks, Slice(Items(opts.plan, phase), i, i + opts.batchSize))
    /\ pc' = "invoke"
    /\ attempt' = 0
    /\ waits' = NoWaits
    /\ invocations' = 0
    /\ UNCHANGED <<result, phase, answers, opCalls, retries>>

\* batchOperation's for loop: next batch, or return results to executeSync
BatchLoop ==
    /\ pc = "loop"
    /\ i + MaxItems >= 0    \* a loop that counts downwards is followed this far
    /\ IF i < Len(Items(opts.plan, phase))
       THEN SubmitBatch
       ELSE /\ result' = PhaseResult(result, phase, results)
            /\ phase' = NextPhase(phase)
            /\ pc' = "phase"
            /\ chunks' = <<>>
            /\ answers' = <<>>
            /\ opCalls' = 0
            /\ retries' = 0
            /\ UNCHANGED <<attempt, waits, invocations>>
    /\ UNCHANGED <<diffVars, apiToken,
                   opts, i, results, pending, waitMs, called, sent, lastErr,
                   thrown, sinceLastEnd, attemptEnded, reported, batchesDone, mt,
                   busy, other>>

\* batchOperation called on its own: the loop, and the return of results to a
\* caller that is not executeSync
BatchLoopDirect ==
    /\ pc = "loop"
    /\ i + MaxItems >= 0    \* a loop that counts downwards is followed this far
    /\ IF i < Len(Items(opts.plan, phase))
       THEN SubmitBatch
       ELSE /\ pc' = "returned"
            /\ UNCHANGED <<result, phase, attempt, waits, invocations, batchHist>>
    /\ UNCHANGED <<diffVars, apiToken,
                   opts, i, results, pending, waitMs, called, sent, lastErr,
                   thrown, sinceLastEnd, attemptEnded, reported, batchesDone, mt,
                   busy, other>>

\* mutant: no catch, the error leaves executeSync
ExecuteSyncRethrow(message) ==
    /\ pc' = "raised"
    /\ UNCHANGED <<result, phase, i, results>>

\* mutant: a catch per phase, the next phase is still run
ExecuteSyncCatchPerPhase(message) ==
    /\ result' = [result EXCEPT !.errors =
                      Append(@, [operation |-> "sync", error |-> message])]
    /\ phase' = NextPhase(phase)
    /\ pc' = "phase"
    /\ UNCHANGED <<i, results>>

\* executeSync's catch: the error is recorded and the result returned
ExecuteSyncCatch(message) ==
    /\ result' = [result EXCEPT !.errors =
                      Append(@, [operation |-> "sync", error |-> message])]
    /\ pc' = "returned"
    /\ UNCHANGED <<phase, i, results>>

\* history of the retry waits: the wait before jitter is recorded while no
\* answer of the call carried a retry hint
Waited(history, minDelay, retryAfterMs, att) ==
    IF history.hinted \/ retryAfterMs # Undefined
    THEN [hinted |-> TRUE, base |-> <<>>]
    ELSE [history EXCEPT !.base =
              Append(@, BackoffWaitMs(minDelay, retryAfterMs, att, 0).v)]

\* withRateLimit's catch
HandleError(err) ==
    /\ lastErr' = err
    /\ sinceLastEnd' = 0
    /\ attemptEnded' = TRUE
    /\ IF ShouldRetry(IF err.name = "POEditorApiError" THEN err.status ELSE Undefined,
                      attempt)
       THEN /\ \E jitter \in Jitters :
                 waitMs' = BackoffWaitMs(opts.rateLimit * 1000,
                               IF err.name = "POEditorApiError"
                               THEN err.retryAfterMs ELSE Undefined,
                               attempt, jitter)
            /\ waits' = Waited(waits, opts.rateLimit * 1000,
                               IF err.name = "POEditorApiError"
                               THEN err.retryAfterMs ELSE Undefined,
                               attempt)
            /\ pc' = "backoff"
            /\ UNCHANGED <<result, phase, i, results, thrown>>
       ELSE /\ thrown' = SurfacedMessage(err)
            /\ ExecuteSyncCatch(SurfacedMessage(err))
            /\ waits' = NoWaits
            /\ UNCHANGED waitMs

\* the projectId argument of addTerms / updateTerms / deleteTerms, which
\* makeRequest posts as the request's id
ProjectIdArgument(op) == "project_id"

\* operation() is called: makeRequest checks the token and posts the batch
Invoke ==
    /\ pc = "invoke"
    /\ invocations' = invocations + 1
    /\ opCalls' = opCalls + 1
    /\ IF apiToken
       THEN /\ called' = called \cup {phase}
            /\ pc' = "inflight"
            /\ sinceLastEnd' = 0
            /\ busy' = busy + 1
            /\ sent' = sent \cup {ProjectIdArgument(phase)}
            /\ UNCHANGED <<result, phase, i, results, waitMs, waits, lastErr,
                           thrown, attemptEnded>>
       ELSE /\ HandleError(TokenRequired)
            /\ UNCHANGED <<called, sent, busy>>
    /\ UNCHANGED <<diffVars, apiToken,
                   opts, attempt, pending, reported, batchesDone, mt,
                   chunks, answers, retries, other>>

\* the POST answers: makeRequest returns the result or throws
Respond ==
    /\ pc = "inflight"
    /\ \E resp \in Responses(Len(Slice(Items(opts.plan, phase), i, i + opts.batchSize))) :
         LET out == makeRequest(resp)
         IN  IF out.ok
             THEN /\ pending' = out.value
                  /\ pc' = "spacing"
                  /\ sinceLastEnd' = 0
                  /\ attemptEnded' = TRUE
                  /\ reported' = [reported EXCEPT ![phase] = @ + out.value]
                  /\ batchesDone' = batchesDone + 1
                  /\ answers' = Append(answers, [chunk |-> Len(chunks),
                                                  value |-> out.value])
                  /\ UNCHANGED <<result, phase, i, results, waitMs, waits, lastErr,
                                 thrown, busy>>
             ELSE /\ HandleError(out.err)
                  /\ busy' = IF pc' = "backoff" THEN busy ELSE busy - 1
                  /\ UNCHANGED <<pending, reported, batchesDone, answers>>
    /\ UNCHANGED <<diffVars, apiToken,
                   opts, attempt, invocations, called, sent, mt, chunks, opCalls,
                   retries, other>>

\* a loop that steps by one item instead of one batch
NextIndexByOne(idx, batchSize) == idx + 1

\* the for loop's increment: i += batchSize
NextIndex(idx, batchSize) == idx + batchSize

\* a batch loop that goes on while the spacing wait of withRateLimit is pending
SpacingNotAwaited ==
    /\ pc = "spacing"
    /\ sinceLastEnd' = sinceLastEnd
    /\ results' = Append(results, pending)
    /\ i' = NextIndex(i, opts.batchSize)
    /\ pc' = "loop"
    /\ attempt' = 0
    /\ waits' = NoWaits
    /\ pending' = 0
    /\ invocations' = 0
    /\ UNCHANGED <<diffVars, apiToken,
                   opts, result, phase, waitMs, called, sent, lastErr, thrown,
                   attemptEnded, reported, batchesDone, mt, batchHist, busy, other>>

\* the spacing timer fires: withRateLimit returns (its locals go out of scope),
\* batchOperation pushes the result
SpacingElapsed ==
    /\ pc = "spacing"
    /\ sinceLastEnd' = sinceLastEnd + TimerDelay(Num(opts.rateLimit * 1000))
    /\ results' = Append(results, pending)
    /\ i' = NextIndex(i, opts.batchSize)
    /\ pc' = "loop"
    /\ attempt' = 0
    /\ waits' = NoWaits
    /\ pending' = 0
    /\ invocations' = 0
    /\ busy' = busy - 1
    /\ UNCHANGED <<diffVars, apiToken,
                   opts, result, phase, waitMs, called, sent, lastErr, thrown,
                   attemptEnded, reported, batchesDone, mt, batchHist, other>>

\* the backoff timer fires: attempt++, continue (the caught err goes out of scope)
BackoffElapsed ==
    /\ pc = "backoff"
    /\ sinceLastEnd' = sinceLastEnd + TimerDelay(waitMs)
    /\ attempt' = attempt + 1
    /\ UNCHANGED waits
    /\ pc' = "invoke"
    /\ waitMs' = Num(0)
    /\ lastErr' = NoErr
    /\ retries' = retries + 1
    /\ busy' = busy - 1
    /\ UNCHANGED <<diffVars, apiToken,
                   opts, result, phase, i, results, pending, invocations,
                   called, sent, thrown, attemptEnded, reported, batchesDone, mt, chunks,
                   answers, opCalls, other>>

Next ==
    \/ ExecuteSync
    \/ BeginPhase
    \/ MachineTranslation
    \/ BatchLoop
    \/ Invoke
    \/ Respond
    \/ SpacingElapsed
    \/ BackoffElapsed

Spec == Init /\ [][Next]_vars

----------------------------------------------------------------------------
(* batchOperation called on its own, including on an empty list *)

\* one list of items, passed as the added terms of an otherwise empty plan
BatchOptions ==
    { [plan |-> [addTerms |-> Prefix(TermIds, n), updateTerms |-> <<>>,
                 deleteTerms |-> <<>>],
       batchSize |-> b, dryRun |-> FALSE, rateLimit |-> r] :
      n \in 0..MaxItems, b \in 1..MaxBatch, r \in RateLimits }

InitBatch ==
    /\ pc = "loop"
    /\ apiToken \in BOOLEAN
    /\ opts \in BatchOptions
    /\ result = EmptyResult
    /\ phase = "add"
    /\ i = 0
    /\ results = <<>>
    /\ attempt = 0
    /\ waits = NoWaits
    /\ pending = 0
    /\ waitMs = Num(0)
    /\ invocations = 0
    /\ called = {}
    /\ sent = {}
    /\ lastErr = NoErr
    /\ thrown = NoMessage
    /\ sinceLastEnd = 0
    /\ attemptEnded = FALSE
    /\ reported = ZeroCounts
    /\ batchesDone = 0
    /\ mt = NoMt
    /\ chunks = <<>>
    /\ answers = <<>>
    /\ opCalls = 0
    /\ retries = 0
    /\ busy = 0
    /\ other = OtherIdle
    /\ NoDiff

NextBatch ==
    \/ BatchLoopDirect
    \/ Invoke
    \/ Respond
    \/ SpacingElapsed
    \/ BackoffElapsed

SpecBatch == InitBatch /\ [][NextBatch]_vars

----------------------------------------------------------------------------
(* two tool calls in flight on one client *)

OtherVars == <<pc, apiToken, opts, result, phase, i, results, attempt, waits, pending,
               waitMs, invocations, called, sent, lastErr, thrown, sinceLastEnd,
               attemptEnded, reported, batchesDone, mt, chunks, answers, opCalls,
               retries, busy, keys, remote, translations, diffOptions, projectId, syncPlan,
               planCalls, firstPlan>>

\* the second tool call reaches withRateLimit: attempt = 0
OtherStart ==
    /\ other.pc = "idle"
    /\ other' = [pc |-> "invoke", attempt |-> 0]
    /\ UNCHANGED OtherVars

\* its operation() is called; without a token makeRequest throws at once
OtherInvoke ==
    /\ other.pc = "invoke"
    /\ other' = [other EXCEPT !.pc = IF apiToken THEN "inflight" ELSE "done"]
    /\ UNCHANGED OtherVars

\* its request is answered: spacing wait, backoff wait or throw
OtherRespond ==
    /\ other.pc = "inflight"
    /\ \E resp \in Responses(1) :
         LET out == makeRequest(resp) IN
         other' = IF out.ok
                  THEN [other EXCEPT !.pc = "spacing"]
                  ELSE IF ShouldRetry(IF out.err.name = "POEditorApiError"
                                      THEN out.err.status ELSE Undefined,
                                      other.attempt)
                       THEN [other EXCEPT !.pc = "backoff"]
                       ELSE [other EXCEPT !.pc = "done"]
    /\ UNCHANGED OtherVars

\* its timer fires: return after the spacing wait, next attempt after a backoff
OtherWaitElapsed ==
    /\ other.pc \in {"spacing", "backoff"}
    /\ other' = IF other.pc = "spacing"
                THEN [pc |-> "done", attempt |-> 0]
                ELSE [pc |-> "invoke", attempt |-> other.attempt + 1]
    /\ UNCHANGED OtherVars

\* the first tool call: a live sync that only adds terms
ConcOptions ==
    {o \in BatchOptions : o.rateLimit = 20 /\ Len(o.plan.addTerms) <= MaxLen}

ExecuteSyncConc == ExecuteSyncWith(ConcOptions)

NextConc ==
    \/ ExecuteSyncConc
    \/ BeginPhase
    \/ MachineTranslation
    \/ BatchLoop
    \/ Invoke
    \/ Respond
    \/ SpacingElapsed
    \/ BackoffElapsed
    \/ OtherStart
    \/ OtherInvoke
    \/ OtherRespond
    \/ OtherWaitElapsed

SpecConc == Init /\ [][NextConc]_vars

----------------------------------------------------------------------------
(* calculateSyncPlan called on bounded inputs, twice on the same objects *)

execVars == <<pc, apiToken, opts, result, phase, i, results, attempt, waits, pending,
              waitMs, invocations, called, sent, lastErr, thrown, sinceLastEnd,
              attemptEnded, reported, batchesDone, mt, chunks, answers, opCalls,
              retries, busy, other>>

\* no executeSync yet
NoExec ==
    /\ pc = "idle"
    /\ opts = NoOptions
    /\ result = EmptyResult
    /\ phase = "add"
    /\ i = 0
    /\ results = <<>>
    /\ attempt = 0
    /\ waits = NoWaits
    /\ pending = 0
    /\ waitMs = Num(0)
    /\ invocations = 0
    /\ called = {}
    /\ sent = {}
    /\ lastErr = NoErr
    /\ thrown = NoMessage
    /\ sinceLastEnd = 0
    /\ attemptEnded = FALSE
    /\ reported = ZeroCounts
    /\ batchesDone = 0
    /\ mt = NoMt
    /\ chunks = <<>>
    /\ answers = <<>>
    /\ opCalls = 0
    /\ retries = 0
    /\ busy = 0
    /\ other = OtherIdle

\* const plan = this.calculateSyncPlan(keys, remoteTerms, remoteTranslations, ...)
CalculateSyncPlan ==
    /\ pc = "idle"
    /\ planCalls < MaxCalls
    /\ syncPlan' = calculateSyncPlan(keys, remote, translations, diffOptions)
    /\ remote' = RemoteAfter(keys, remote)
    /\ planCalls' = planCalls + 1
    /\ firstPlan' = IF planCalls = 0 THEN syncPlan' ELSE firstPlan
    /\ UNCHANGED <<execVars, keys, translations, diffOptions, projectId>>

InitDiff ==
    /\ NoExec
    /\ apiToken = TRUE
    /\ keys \in SeqsUpTo(DetectedKeys, MaxKeys)
    /\ remote \in SeqsUpTo(TermResponses, MaxKeys)
    /\ diffOptions \in PlanOptions
    /\ projectId = NoProject
    /\ translations \in {Translations(diffOptions.includeLangs, c) : c \in Contents}
    /\ syncPlan = NoPlan
    /\ planCalls = 0
    /\ firstPlan = NoPlan

NextDiff == CalculateSyncPlan

SpecDiff == InitDiff /\ [][NextDiff]_vars

----------------------------------------------------------------------------
(* createSyncPlan followed by a live executeSync of the plan *)

\* a live executeSync of the plan calculateSyncPlan returned
PlanExecutions ==
    { [plan |-> syncPlan, batchSize |-> b, dryRun |-> FALSE, rateLimit |-> 20] :
      b \in 1..MaxBatch }

ExecuteSyncPlan ==
    /\ planCalls > 0
    /\ ExecuteSyncWith(PlanExecutions)

InitPipeline ==
    /\ NoExec
    /\ apiToken \in BOOLEAN
    /\ keys \in { <<>>, <<KeyInComponent("t1")>>, <<KeyInPage("t2")>> }
    /\ remote \in { <<>>, <<TermOfComponent("t2")>>,
                     <<TermOfComponent("t2"), TermUntagged("t3")>> }
    /\ diffOptions \in [deleteExtraneous : BOOLEAN, includeLangs : { <<"de">> }]
    /\ projectId \in ProjectIds
    /\ translations = Translations(<<"de">>, {<<"de", "t3">>})
    /\ syncPlan = NoPlan
    /\ planCalls = 0
    /\ firstPlan = NoPlan

NextPipeline ==
    \/ CalculateSyncPlan
    \/ ExecuteSyncPlan
    \/ BeginPhase
    \/ MachineTranslation
    \/ BatchLoop
    \/ Invoke
    \/ Respond
    \/ SpacingElapsed
    \/ BackoffElapsed

SpecPipeline == InitPipeline /\ [][NextPipeline]_vars

----------------------------------------------------------------------------
(* handleSync: executeSync on the options the tool handler builds *)

\* args.batchSize: undefined (read as 0 by ||), a negative and a positive number
BatchSizeArgs == {0 - 1, 0, 1}

\* batchSize: args.batchSize || 100
HandleSyncBatchSize(arg) == IF arg = 0 THEN 100 ELSE arg

\* the options handleSync passes to executeSync, rateLimit left to its default
HandleSyncOptions ==
    { [plan |-> p, batchSize |-> HandleSyncBatchSize(b), dryRun |-> d,
       rateLimit |-> 20] :
      p \in Plans, b \in BatchSizeArgs, d \in BOOLEAN }

HandleSync == ExecuteSyncWith(HandleSyncOptions)

NextHandleSync ==
    \/ HandleSync
    \/ BeginPhase
    \/ MachineTranslation
    \/ BatchLoop
    \/ Invoke
    \/ Respond
    \/ SpacingElapsed
    \/ BackoffElapsed

SpecHandleSync == Init /\ [][NextHandleSync]_vars

----------------------------------------------------------------------------
(* Properties *)

minDelay == opts.rateLimit * 1000

Live == pc # "idle" /\ ~opts.dryRun

Failed == thrown # NoMessage

\* the error classifications withRateLimit is documented to retry
Throttled(err) ==
    err.name = "POEditorApiError" /\ err.status \in {Num(429), Num(503)}

\* C1: whenever an attempt starts after an earlier attempt of the same run has
\* ended, at least minDelayMs of timer time has elapsed since that end, whatever
\* retry-after value the server sent.
C1_MinDelayFloor ==
    (pc = "invoke" /\ attemptEnded) => sinceLastEnd >= minDelay

\* C2: withRateLimit invokes its operation at most 5 times per call.
C2_AtMostFiveInvocations ==
    invocations <= 5

\* C3: withRateLimit waits for a retry only after a 429 or 503 error; any other
\* error is raised at once, with no backoff wait and no further invocation (one
\* invocation in all when it is the first answer), and the raised message
\* carries the status when the error has one.
C3_RetryOnlyThrottling ==
    /\ pc = "backoff" => Throttled(lastErr)
    /\ (Failed /\ ~Throttled(lastErr)) =>
          /\ pc = "returned"
          /\ waitMs = Num(0)
          /\ invocations = attempt + 1
          /\ (attempt = 0 => invocations = 1)
          /\ (lastErr.name = "POEditorApiError" /\ IsNum(lastErr.status))
                => thrown.status = lastErr.status

\* a 401 answered to the retry that followed a throttling answer
C3_Witness ==
    /\ Failed
    /\ lastErr.status = Num(401)
    /\ attempt = 1
    /\ invocations = 2
    /\ thrown.status = Num(401)

\* a network request of phase op is issued by this step
IssuesCall(op) == pc = "invoke" /\ pc' = "inflight" /\ phase = op

\* C4: in a live executeSync no add-terms call follows an update-terms or
\* delete-terms call and no update-terms call follows a delete-terms call; a
\* phase issues calls only when its plan list is non-empty, so a plan with three
\* empty lists issues no call.
C4_PhaseOrder ==
    /\ [][ /\ IssuesCall("add") =>
                /\ called \cap {"update", "delete"} = {}
                /\ Len(opts.plan.addTerms) > 0
           /\ IssuesCall("update") =>
                /\ "delete" \notin called
                /\ Len(opts.plan.updateTerms) > 0
           /\ IssuesCall("delete") => Len(opts.plan.deleteTerms) > 0 ]_vars
    /\ [](\A op \in Ops : Len(Items(opts.plan, op)) = 0 => op \notin called)

\* a live run that called all three endpoints
C4_Witness ==
    /\ pc = "returned"
    /\ Live
    /\ called = Ops

\* C5: a dry-run executeSync returns at once with the plan list lengths as
\* counters, no error and no rate-limit wait, and issues no remote call, with
\* or without a credential.
C5_DryRunNoRemoteCall ==
    (pc # "idle" /\ opts.dryRun) =>
        /\ pc = "returned"
        /\ called = {}
        /\ invocations = 0
        /\ result.created = Len(opts.plan.addTerms)
        /\ result.updated = Len(opts.plan.updateTerms)
        /\ result.deleted = Len(opts.plan.deleteTerms)
        /\ result.errors = <<>>
        /\ result.rateLimitWaits = 0

\* a dry run of a non-empty plan on a client without credential
C5_Witness ==
    /\ pc = "returned"
    /\ opts.dryRun
    /\ ~apiToken
    /\ Len(opts.plan.addTerms) > 0
    /\ Len(opts.plan.updateTerms) > 0
    /\ Len(opts.plan.deleteTerms) > 0

\* C6: a live executeSync never raises: when withRateLimit raised an error the
\* returned errors list is exactly one entry, operation "sync" with that
\* error's message, and when nothing was raised the list is empty.
C6_SyncNeverRaises ==
    /\ pc # "raised"
    /\ (pc = "returned" /\ Live) =>
          IF Failed
          THEN result.errors = <<[operation |-> "sync", error |-> thrown]>>
          ELSE result.errors = <<>>

\* a run that failed on exhausted retries of a throttled update batch
C6_Witness ==
    /\ pc = "returned"
    /\ Live
    /\ Failed
    /\ phase = "update"
    /\ thrown.status = Num(429)
    /\ attempt = maxRetries
    /\ Len(result.errors) = 1

\* C7: once a batch has finally failed, the invocation has returned: no operation
\* is started for the remaining batches of that phase nor for a later phase.
C7_StopsAfterFailure ==
    Failed => pc = "returned"

\* the first add batch failed with a second batch and later phases still to do
C7_Witness ==
    /\ Failed
    /\ pc = "returned"
    /\ phase = "add"
    /\ i + opts.batchSize < Len(opts.plan.addTerms)
    /\ Len(opts.plan.updateTerms) > 0
    /\ Len(opts.plan.deleteTerms) > 0
    /\ called = {"add"}

\* C8: the returned counter of every phase, the failing one included, is the
\* sum of the counts the server reported for that phase's completed batches.
C8_PartialCountsKept ==
    (pc = "returned" /\ Live) =>
        /\ result.created = reported["add"]
        /\ result.updated = reported["update"]
        /\ result.deleted = reported["delete"]

\* C9: when a live executeSync returns, rateLimitWaits is the number of batches
\* whose remote operation completed.
C9_WaitsCountBatches ==
    (pc = "returned" /\ Live) => result.rateLimitWaits = batchesDone

\* C10: in a live executeSync with no failure, created, updated and deleted are
\* the sums of the counts the server reported for the add, update and delete
\* batches.
C10_CountsServerReported ==
    (pc = "returned" /\ Live /\ ~Failed) =>
        /\ result.created = reported["add"]
        /\ result.updated = reported["update"]
        /\ result.deleted = reported["delete"]

\* the server accepted a non-empty strict subset of the additions
C10_Witness ==
    /\ pc = "returned"
    /\ Live
    /\ ~Failed
    /\ result.created > 0
    /\ result.created < Len(opts.plan.addTerms)
    /\ result.deleted < Len(opts.plan.deleteTerms)

\* ceil(n / b) for b >= 1
Ceil(n, b) == (n + b - 1) \div b

RECURSIVE Flatten(_)
\* the concatenation of a sequence of sequences
Flatten(ss) ==
    IF ss = <<>> THEN <<>> ELSE Head(ss) \o Flatten(Tail(ss))

\* the list the running batchOperation was given
BatchItems == Items(opts.plan, phase)

\* batchOperation has returned its results
BatchComplete == pc = "returned" /\ ~Failed

\* C11 as stated: a completing batchOperation over N items with batch size B
\* makes exactly ceil(N / B) calls of the per-batch operation.
C11_ExactlyCeilCalls ==
    BatchComplete => opCalls = Ceil(Len(BatchItems), opts.batchSize)

\* C11 amended: a completing batchOperation submits exactly ceil(N / B) batches,
\* none when N = 0, and calls the operation once per batch plus once for
\* every throttled attempt it retried.
C11_CeilBatchesPlusRetries ==
    BatchComplete =>
        /\ Len(chunks) = Ceil(Len(BatchItems), opts.batchSize)
        /\ Len(results) = Len(chunks)
        /\ opCalls = Len(chunks) + retries
        /\ Len(BatchItems) = 0 => opCalls = 0

C11_Witness ==
    /\ BatchComplete
    /\ Len(BatchItems) = 3
    /\ opts.batchSize = 2
    /\ Len(chunks) = 2
    /\ retries > 0

\* C12: the batches are consecutive chunks of the items: none empty, none longer
\* than batchSize, all but the last exactly batchSize, their concatenation is
\* the items; a chunk is submitted only after the previous chunk's result was
\* obtained, and the returned list holds one result per chunk in chunk order.
C12_ConsecutiveChunks ==
    /\ \A k \in 1..Len(chunks) :
          /\ chunks[k] # <<>>
          /\ Len(chunks[k]) <= opts.batchSize
          /\ k < Len(chunks) => Len(chunks[k]) = opts.batchSize
    /\ Flatten(chunks) = Prefix(BatchItems, Len(Flatten(chunks)))
    /\ Len(chunks) <= Len(answers) + 1
    /\ \A k \in 1..Len(answers) : answers[k].chunk = k
    /\ Len(results) <= Len(answers)
    /\ \A k \in 1..Len(results) : results[k] = answers[k].value
    /\ BatchComplete => /\ Flatten(chunks) = BatchItems
                        /\ Len(results) = Len(chunks)

C12_Witness ==
    /\ BatchComplete
    /\ chunks = <<(<<"t1", "t2">>), (<<"t3">>)>>
    /\ results = <<2, 0>>

\* C13 as stated: no two operations of the client are ever in flight at once,
\* whichever callers interleave, a second concurrent tool call included.
C13_NeverTwoInFlight ==
    ~(pc = "inflight" /\ other.pc = "inflight")

\* C13 amended: within one executeSync invocation at most one operation is in
\* flight or waiting; each batch's operation and its spacing or backoff wait
\* are over before the next operation is invoked.
C13_OneInvocationSequential ==
    /\ busy \in {0, 1}
    /\ pc = "invoke" => busy = 0
    /\ pc \in {"inflight", "spacing", "backoff"} => busy = 1

C13_Witness ==
    /\ pc = "invoke"
    /\ Len(answers) = 1
    /\ other.pc = "inflight"

\* calculateSyncPlan has returned a plan for the inputs of the state
Planned == planCalls > 0

\* the identifiers listed by the plan
AddIds == [k \in 1..Len(syncPlan.addTerms) |-> syncPlan.addTerms[k].term]

UpdateIds == [k \in 1..Len(syncPlan.updateTerms) |-> syncPlan.updateTerms[k].term]

DeleteIds == syncPlan.deleteTerms

LocalIdSet == Elements(LocalIds(keys))

RemoteIdSet == Elements(RemoteIds(remote))

NoRepeat(list) == \A a, b \in 1..Len(list) : list[a] = list[b] => a = b

\* the position of the first occurrence of x in list
Pos(list, x) == CHOOSE k \in 1..Len(list) : list[k] = x /\ \A j \in 1..(k - 1) : list[j] # x

\* list holds elements of base, each once, in the order of their first
\* occurrence in base
InOrderOf(list, base) ==
    /\ NoRepeat(list)
    /\ Elements(list) \subseteq Elements(base)
    /\ \A a, b \in 1..Len(list) : a < b => Pos(base, list[a]) < Pos(base, list[b])

\* C14: the identifiers of addTerms are the local identifiers absent from the
\* remote terms; with deleteExtraneous, deleteTerms is the set of remote
\* identifiers absent from the local keys (all of them for an empty local
\* list); both lists are empty when the two identifier sets are equal.
C14_AddAndDeleteSets ==
    Planned =>
        /\ Elements(AddIds) = LocalIdSet \ RemoteIdSet
        /\ diffOptions.deleteExtraneous => Elements(DeleteIds) = RemoteIdSet \ LocalIdSet
        /\ diffOptions.deleteExtraneous /\ keys = <<>> => Elements(DeleteIds) = RemoteIdSet
        /\ LocalIdSet = RemoteIdSet => AddIds = <<>> /\ DeleteIds = <<>>

C14_Witness ==
    /\ Planned
    /\ diffOptions.deleteExtraneous
    /\ AddIds = <<"t1">>
    /\ DeleteIds = <<"t3">>

\* C15: an identifier occurs in at most one of addTerms, the keys of
\* updateTerms and deleteTerms, and at most once in each, also when the local
\* key list repeats identifiers.
C15_AtMostOneList ==
    Planned =>
        /\ NoRepeat(AddIds)
        /\ NoRepeat(UpdateIds)
        /\ NoRepeat(DeleteIds)
        /\ Elements(AddIds) \cap Elements(UpdateIds) = {}
        /\ Elements(AddIds) \cap Elements(DeleteIds) = {}
        /\ Elements(UpdateIds) \cap Elements(DeleteIds) = {}

C15_Witness ==
    /\ Planned
    /\ Len(keys) = 2
    /\ keys[1].key = keys[2].key
    /\ keys[1] # keys[2]
    /\ Len(AddIds) = 1

\* C16: without deleteExtraneous the plan's deleteTerms and all its
\* obsoleteTranslations lists are empty whatever the local and remote
\* contents, and a live executeSync of the plan makes no delete-terms call.
C16_NoDeleteUnlessRequested ==
    (Planned /\ ~diffOptions.deleteExtraneous) =>
        /\ syncPlan.deleteTerms = <<>>
        /\ \A k \in 1..Len(syncPlan.obsoleteTranslations) :
              syncPlan.obsoleteTranslations[k].terms = <<>>
        /\ "delete" \notin called

C16_Witness ==
    /\ ~diffOptions.deleteExtraneous
    /\ pc = "returned"
    /\ ~Failed
    /\ "t3" \in RemoteIdSet \ LocalIdSet
    /\ "add" \in called

\* C17: stats.adds, stats.updates and stats.deletes are the lengths of the three
\* lists and stats.missing is the total length of the missingTranslations
\* lists; with includeLangs empty there is no missing or obsolete bucket and
\* stats.missing is 0.
C17_StatsCountLists ==
    Planned =>
        /\ syncPlan.stats.adds = Len(syncPlan.addTerms)
        /\ syncPlan.stats.updates = Len(syncPlan.updateTerms)
        /\ syncPlan.stats.deletes = Len(syncPlan.deleteTerms)
        /\ syncPlan.stats.missing =
              Len(Flatten([k \in 1..Len(syncPlan.missingTranslations) |->
                              syncPlan.missingTranslations[k].terms]))
        /\ diffOptions.includeLangs = <<>> =>
              /\ syncPlan.missingTranslations = <<>>
              /\ syncPlan.obsoleteTranslations = <<>>
              /\ syncPlan.stats.missing = 0

C17_Witness ==
    /\ Planned
    /\ Len(syncPlan.missingTranslations) = 2
    /\ Len(syncPlan.missingTranslations[1].terms) = 1
    /\ syncPlan.stats.missing = 3

\* the arrays that hold the elements of list in some order
Reorderings(list) ==
    { [k \in 1..Len(list) |-> list[f[k]]] : f \in Permutations(1..Len(list)) }

\* the update record the plan holds for key, NoUpdates when it holds none
PlannedUpdates(key) ==
    IF \E k \in 1..Len(syncPlan.updateTerms) : syncPlan.updateTerms[k].term = key
    THEN syncPlan.updateTerms[Pos(UpdateIds, key)].updates
    ELSE NoUpdates

\* C18: for a key present locally and remotely, the remote tags in any other
\* order give the same update record (or none as well), and the record has no
\* tags field when the derived tags and the remote tags are the same set.
C18_TagOrderIndependent ==
    Planned =>
        \A key \in LocalIdSet \cap RemoteIdSet :
            LET localKey == Get(keys, LocalIds(keys), key)
                remoteKey == Get(remote, RemoteIds(remote), key)
            IN  /\ remoteKey.tags.def =>
                      \A tags \in Reorderings(remoteKey.tags.v) :
                          calculateTermUpdates(localKey,
                                               [remoteKey EXCEPT !.tags = Some(tags)])
                              = PlannedUpdates(key)
                /\ (remoteKey.tags.def /\ extractTags(localKey).def
                        /\ Elements(extractTags(localKey).v) = Elements(remoteKey.tags.v))
                       => ~PlannedUpdates(key).tags.def

C18_Witness ==
    /\ planCalls = 1
    /\ keys = <<KeyInComponent("t2")>>
    /\ Len(remote) = 1
    /\ remote[1].term = "t2"
    /\ remote[1].tags.def
    /\ syncPlan.updateTerms = <<>>

\* C19: a second call on the same inputs returns an equal plan; addTerms and
\* updateTerms list their identifiers in local-key insertion order and
\* deleteTerms lists its identifiers in remote-term insertion order.
C19_DeterministicInOrder ==
    /\ planCalls > 1 => syncPlan = firstPlan
    /\ Planned =>
          /\ syncPlan = calculateSyncPlan(keys, remote, translations, diffOptions)
          /\ InOrderOf(AddIds, LocalIds(keys))
          /\ InOrderOf(UpdateIds, LocalIds(keys))
          /\ InOrderOf(DeleteIds, RemoteIds(remote))

C19_Witness ==
    /\ planCalls = 2
    /\ diffOptions.includeLangs = <<"de", "fr">>
    /\ AddIds = <<"t2", "t1">>
    /\ DeleteIds = <<"t3">>

\* the language list the machine-translation directive resolves to
ResolvedLangs(m) ==
    IF m.machineTranslate.truthy /\ StatsMissing(m.missingTranslations) > 0
    THEN IF m.machineTranslate.type = "object" THEN m.machineTranslate.langs
         ELSE NonEmptyLangs(m.missingTranslations)
    ELSE <<>>

\* C20: in either mode the returned mtTriggered is the resolved language list
\* when machineTranslate is truthy and stats.missing > 0 and is empty otherwise,
\* and no endpoint other than the three term endpoints is ever called.
C20_MtTriggeredResolved ==
    /\ called \subseteq Ops
    /\ pc = "returned" => result.mtTriggered = ResolvedLangs(mt)

\* the plan handed to executeSync lists at least one term
PlanNonEmpty ==
    \E p \in Ops : Len(Items(opts.plan, p)) > 0

\* C21: without an API token no request is ever sent and no backoff is waited
\* for; a live executeSync of a non-empty plan returns a result with one error,
\* the configuration error, and all counters zero.
C21_MissingCredentialFailsFast ==
    ~apiToken =>
        /\ called = {}
        /\ pc \notin {"inflight", "spacing", "backoff"}
        /\ retries = 0
        /\ (pc = "returned" /\ ~opts.dryRun /\ PlanNonEmpty) =>
              /\ Len(result.errors) = 1
              /\ result.errors[1].error = SurfacedMessage(TokenRequired)
              /\ result.created = 0
              /\ result.updated = 0
              /\ result.deleted = 0
              /\ result.rateLimitWaits = 0
              /\ opCalls = 1

C21_Witness ==
    /\ ~apiToken
    /\ pc = "returned"
    /\ ~opts.dryRun
    /\ Len(opts.plan.deleteTerms) = 2
    /\ Len(result.errors) = 1
\* the text of an optional string, a missing one reading as the empty string
Text(x) == IF x.def THEN x.v ELSE <<>>

\* the set of tags of an optional tag array
TagSet(x) == IF x.def THEN Elements(x.v) ELSE {}

\* the local key and the remote term that the two maps hold for key
LocalOf(key) == Get(keys, LocalIds(keys), key)

RemoteOf(key) == Get(remote, RemoteIds(remote), key)

\* field f derived from the local key differs from the remote term's value
Differs(key, f) ==
    CASE f = "context" -> Text(extractContext(LocalOf(key))) # Text(RemoteOf(key).context)
      [] f = "reference" ->
            Text(extractReference(LocalOf(key))) # Text(RemoteOf(key).reference)
      [] f = "comment" -> Text(generateComment(LocalOf(key))) # Text(RemoteOf(key).comment)
      [] f = "tags" -> TagSet(extractTags(LocalOf(key))) # TagSet(RemoteOf(key).tags)

Fields == {"context", "reference", "tags", "comment"}

\* identical identifier sets and no derived field that differs
InSync ==
    /\ Planned
    /\ LocalIdSet = RemoteIdSet
    /\ \A key \in LocalIdSet : \A f \in Fields : ~Differs(key, f)

\* the entries of includeLangs paired with the local identifiers that the
\* remote translation map of the entry's language has no content for
Untranslated ==
    { <<k, key>> \in (1..Len(diffOptions.includeLangs)) \X LocalIdSet :
          ~Translated(translations, diffOptions.includeLangs[k], key) }

\* C22 as stated: with identical identifier sets and no differing field the
\* three lists are empty and every entry of stats is zero.
C22_InSyncAllZero ==
    InSync =>
        /\ syncPlan.addTerms = <<>>
        /\ syncPlan.updateTerms = <<>>
        /\ syncPlan.deleteTerms = <<>>
        /\ syncPlan.stats = [adds |-> 0, updates |-> 0, deletes |-> 0, missing |-> 0]

\* C22: with identical identifier sets and no differing field the three lists
\* are empty and stats.adds, stats.updates and stats.deletes are zero, while
\* stats.missing counts the included-language entries a local identifier has
\* no remote translation for, and is zero when there is none.
C22_InSyncNothingToDo ==
    InSync =>
        /\ syncPlan.addTerms = <<>>
        /\ syncPlan.updateTerms = <<>>
        /\ syncPlan.deleteTerms = <<>>
        /\ syncPlan.stats.adds = 0
        /\ syncPlan.stats.updates = 0
        /\ syncPlan.stats.deletes = 0
        /\ syncPlan.stats.missing = Cardinality(Untranslated)

C22_Witness ==
    /\ InSync
    /\ keys # <<>>
    /\ diffOptions.includeLangs = <<"de", "fr">>
    /\ syncPlan.stats.missing = 1
\* the plan holds an update record for key
HasUpdate(key) == \E k \in 1..Len(syncPlan.updateTerms) : syncPlan.updateTerms[k].term = key

\* C24: for a key present locally and remotely the update record holds field f
\* exactly when the value derived from the local key differs from the remote
\* term's, also when the derived value is empty and the remote one is not, and
\* no update record is emitted when no field differs.
C24_UpdateHoldsChangedFields ==
    Planned =>
        \A key \in LocalIdSet \cap RemoteIdSet :
            /\ \A f \in Fields : PlannedUpdates(key)[f].def <=> Differs(key, f)
            /\ HasUpdate(key) <=> \E f \in Fields : Differs(key, f)
\* buckets[lang]
BucketTerms(buckets, lang) ==
    buckets[CHOOSE k \in 1..Len(buckets) : buckets[k].lang = lang].terms

\* the remote translation map of lang has content for key
HasContent(lang, key) == <<lang, key>> \in translations.content

\* C25: for every included language L, missingTranslations[L] holds exactly the
\* addTerms identifiers and the identifiers present on both sides without
\* content in L, none that is absent from the local keys and none twice, and
\* obsoleteTranslations[L] holds exactly the deleteTerms identifiers that have
\* content in L.
C25_TranslationBuckets ==
    Planned =>
        \A lang \in Elements(diffOptions.includeLangs) :
            /\ Elements(BucketTerms(syncPlan.missingTranslations, lang))
                  = Elements(AddIds) \cup
                    {key \in LocalIdSet \cap RemoteIdSet : ~HasContent(lang, key)}
            /\ Elements(BucketTerms(syncPlan.missingTranslations, lang)) \subseteq LocalIdSet
            /\ NoRepeat(BucketTerms(syncPlan.missingTranslations, lang))
            /\ Elements(BucketTerms(syncPlan.obsoleteTranslations, lang))
                  = {key \in Elements(DeleteIds) : HasContent(lang, key)}
\* C26: the diff is a pure function of its inputs: a call of calculateSyncPlan
\* leaves the local key list, the remote term list with the order of every
\* term's tags, and the remote translation maps as they were before the call.
C26_DiffLeavesInputs ==
    [][planCalls' # planCalls =>
          /\ keys' = keys
          /\ remote' = remote
          /\ translations' = translations]_vars
\* the larger and the smaller of two integers
Larger(a, b) == IF a >= b THEN a ELSE b

Smaller(a, b) == IF a <= b THEN a ELSE b

\* the retry hint of the error being backed off from
Hint == lastErr.retryAfterMs

C28_BackoffIncreases ==
    \A k \in 2..Len(waits.base) :
        /\ waits.base[k] > waits.base[k - 1]
        /\ waits.base[k] > minDelay
\* C29: every add-terms, update-terms and delete-terms request of a live
\* executeSync carries the identifier of the project whose remote terms
\* createSyncPlan compared the local keys against.
C29_RequestsCarryPlannedProject ==
    Planned => \A id \in sent : id = projectId
\* C30: a live executeSync terminates for every batchSize handleSync passes on,
\* after a bounded number of operation attempts: no batch is attempted more
\* than maxRetries + 1 times, and the batch loop advances with every batch, so
\* a phase never submits more batches than its list has items.
C30_BoundedAttemptsLoopAdvances ==
    Live =>
        /\ invocations <= maxRetries + 1
        /\ phase \in Ops => Len(chunks) <= Len(Items(opts.plan, phase))
====
